---- MODULE Spec2Model ----
\* gitLite (src/main.py): a local version-control core.  The model covers the
\* on-disk repository (.gitLite/objects, refs/heads/main, HEAD, index), the
\* working directory, and the commands init, add, commit, log, checkout and
\* diff, with commands interrupted between two writes and two add processes
\* running side by side.
EXTENDS Integers, Sequences, FiniteSets, TLC

\* ---------------------------------------------------------------- bounds
\* number of commits that may run to completion in one behaviour
MaxCommits == 2
\* number of object files that may be lost in one behaviour
MaxLost == 1
\* number of commits that may run to completion when two files are tracked
MaxFilesCommits == 1

\* ------------------------------------------------------- option values
\* Python's None / "no such file" is the empty tuple, a present value a 1-tuple.
None == <<>>
Some(x) == <<x>>

\* ------------------------------------------------------------ the names
GITLITE_DIR == ".gitLite"
OBJECTS_DIR == ".gitLite/objects"
REFS_DIR == ".gitLite/refs/heads"
SYMREF == "ref: refs/heads/main"

\* Paths are strings of characters, written as tuples so that the prefix test
\* of the ignore list is the character-wise one of str.startswith.
FileA == <<"a">>
DirD == <<"d">>
FileDA == <<"d", "/", "a">>
FileT == <<"t">>
\* the files the user edits, and every path a command can be given
FilePaths == {FileA, FileDA}
AllPaths == {FileA, DirD, FileDA, FileT}
\* the contents the user gives each file
Contents(p) == IF p = FileA THEN {"hello", "world"} ELSE {"hello"}
Messages == {"first"}
\* the values time.time() returns
Times == {0}
\* .gitLiteignore lists the one prefix "t"; the file t is always there
IgnoreFile == <<FileT>>

\* ------------------------------------------------------ serialized bytes
\* A file's raw bytes, and the two pickles the program writes.
RawBytes(c) == [fmt |-> "raw", data |-> c]

\* pickle.dumps(tree): a dict keeps its insertion order, so the pickle is the
\* ordered list of (path, blob bytes) items.
pickle_dumps_tree(tree) == [fmt |-> "pickle", type |-> "dict", items |-> tree]

\* Commit.serialize(): pickle.dumps(self) of the four attributes.
Commit_serialize(c) ==
  [fmt |-> "pickle", type |-> "Commit", message |-> c.message,
   tree_hash |-> c.tree_hash, parent_commit |-> c.parent_commit,
   timestamp |-> c.timestamp]

\* pickle.load succeeds only on bytes that are a pickle
Unpickles(b) == b.fmt = "pickle"
IsCommitPickle(b) == Unpickles(b) /\ b.type = "Commit"
IsDictPickle(b) == Unpickles(b) /\ b.type = "dict"

\* hashlib.sha1(bytes).hexdigest(), collision free: the digest determines the
\* bytes.  The store path objects/<h[:2]>/<h[2:]> is one-to-one with h.
sha1(b) == [sha1 |-> b]

Elems(seq) == {seq[i] : i \in 1..Len(seq)}

\* ------------------------------------------------ ordered dictionaries
\* A Python dict as the sequence of its (key, value) items in insertion order.
DictKeys(d) == {d[i][1] : i \in 1..Len(d)}
DictHas(d, k) == \E i \in 1..Len(d) : d[i][1] = k
DictGet(d, k) == d[CHOOSE i \in 1..Len(d) : d[i][1] = k][2]
DictSet(d, k, v) ==
  IF DictHas(d, k)
  THEN [i \in 1..Len(d) |-> IF d[i][1] = k THEN <<k, v>> ELSE d[i]]
  ELSE Append(d, <<k, v>>)

\* ------------------------------------------------------------ variables
VARIABLES
  workdir,     \* path -> [type: "none" | "file" | "dir", data]
  gitdirs,     \* which of .gitLite, objects, refs/heads exist
  HEAD,        \* content of .gitLite/HEAD, None when the file is missing
  main,        \* content of refs/heads/main, None when the file is missing
  index,       \* content of .gitLite/index, None when the file is missing
  objects,     \* the object store: hash -> stored bytes
  out,         \* the last command run and what it printed or raised
  stagedBytes, \* history: path -> bytes the working file had when staged
  snapshots,   \* history: commit hash -> the stagedBytes of that commit
  commitsMade, \* history: hashes of the commits that ran to completion
  lost,        \* history: hashes of the object files that were lost
  adders       \* the add invocations running side by side: their position
               \* and the index each holds in memory

vars == <<workdir, gitdirs, HEAD, main, index, objects, out,
          stagedBytes, snapshots, commitsMade, lost, adders>>
repo == <<gitdirs, HEAD, main, index, objects>>
history == <<stagedBytes, snapshots, commitsMade, lost>>

\* the add invocations that run side by side
Adders == {1, 2}
\* an invocation that has not started
Idle == [pc |-> "idle", files |-> <<>>, index |-> <<>>, printed |-> <<>>,
         staged |-> <<>>, loadedAt |-> 0, savedAt |-> 0]

NoEntry == [type |-> "none", data |-> ""]
DirEntry == [type |-> "dir", data |-> ""]
FileEntry(c) == [type |-> "file", data |-> c]

\* what a command leaves on the terminal: its name, the lines it printed
\* (of add its warnings only, of checkout not the per-file lines) and the exception
\* that ended it, "" when it returned
Ran(cmd, printed, exc) == [cmd |-> cmd, printed |-> printed, exc |-> exc]

\* ----------------------------------------------------- file system tests
exists(w, p) == p \in DOMAIN w /\ w[p].type # "none"
isdir(w, p) == p \in DOMAIN w /\ w[p].type = "dir"
isfile(w, p) == p \in DOMAIN w /\ w[p].type = "file"

HasSep(p) == \E i \in 1..Len(p) : p[i] = "/"
LastSep(p) ==
  CHOOSE i \in 1..Len(p) : p[i] = "/" /\ \A j \in (i + 1)..Len(p) : p[j] # "/"
dirname(p) == IF HasSep(p) THEN SubSeq(p, 1, LastSep(p) - 1) ELSE <<>>

\* open(path, 'wb') succeeds when the parent directory exists and the path is
\* not itself a directory
CanOpenForWrite(w, p) ==
  /\ ~isdir(w, p)
  /\ dirname(p) = <<>> \/ isdir(w, dirname(p))

startswith(p, prefix) ==
  Len(prefix) <= Len(p) /\ SubSeq(p, 1, Len(prefix)) = prefix

Init ==
  /\ workdir = [p \in AllPaths |-> IF p = FileT THEN FileEntry("hello") ELSE NoEntry]
  /\ gitdirs = {}
  /\ HEAD = None
  /\ main = None
  /\ index = None
  /\ objects = <<>>
  /\ out = Ran("start", <<>>, "")
  /\ stagedBytes = <<>>
  /\ snapshots = <<>>
  /\ commitsMade = <<>>
  /\ lost = {}
  /\ adders = [i \in Adders |-> Idle]

\* ------------------------------------------------------- the user's edits
\* The working directory is the program's input: the user writes, removes
\* and re-creates the files and the directory the commands read.
EditFile(p, c) ==
  /\ CanOpenForWrite(workdir, p)
  /\ workdir' = [workdir EXCEPT ![p] = FileEntry(c)]
  /\ out' = Ran("edit", <<>>, "")
  /\ UNCHANGED <<repo, history, adders>>

RemoveFile(p) ==
  /\ isfile(workdir, p)
  /\ workdir' = [workdir EXCEPT ![p] = NoEntry]
  /\ out' = Ran("edit", <<>>, "")
  /\ UNCHANGED <<repo, history, adders>>

MakeDir ==
  /\ ~exists(workdir, DirD)
  /\ workdir' = [workdir EXCEPT ![DirD] = DirEntry]
  /\ out' = Ran("edit", <<>>, "")
  /\ UNCHANGED <<repo, history, adders>>

RemoveDir ==
  /\ isdir(workdir, DirD)
  /\ workdir' = [p \in AllPaths |->
                  IF startswith(p, DirD) THEN NoEntry ELSE workdir[p]]
  /\ out' = Ran("edit", <<>>, "")
  /\ UNCHANGED <<repo, history, adders>>

\* ------------------------------------------------------------------ init
\* init without the test for an existing repository: the repository is
\* laid out afresh every time
init_reset ==
  /\ gitdirs' = {GITLITE_DIR, OBJECTS_DIR, REFS_DIR}
  /\ HEAD' = Some(SYMREF)
  /\ main' = None
  /\ index' = None
  /\ objects' = <<>>
  /\ out' = Ran("init", <<<<"gitLite repository initialized.">>>>, "")
  /\ UNCHANGED <<workdir, history, adders>>

init ==
  IF GITLITE_DIR \in gitdirs
  THEN /\ out' = Ran("init", <<<<"gitLite repository already exists.">>>>, "")
       /\ UNCHANGED <<workdir, repo, history, adders>>
  ELSE /\ gitdirs' = gitdirs \cup {GITLITE_DIR, OBJECTS_DIR, REFS_DIR}
       /\ HEAD' = Some(SYMREF)
       /\ out' = Ran("init", <<<<"gitLite repository initialized.">>>>, "")
       /\ UNCHANGED <<workdir, main, index, objects, history, adders>>

\* ------------------------------------------------------------ the index
\* load_index(): the persisted mapping, or {} when there is no index file
load_index(idx) == IF idx = None THEN <<>> ELSE idx[1]

\* read_gitliteignore(): the prefixes of .gitLiteignore
read_gitliteignore == IgnoreFile

\* hash_file hashing a file object already read to its end
hash_file_eof(w, p) == sha1(RawBytes(""))

\* hash_file(path): sha1 over the file's current bytes
hash_file(w, p) == sha1(RawBytes(w[p].data))

\* the fan-out directory removed and re-created before the write
StoreWrite_rmtree(objs, h, b) == (h :> b)

\* "if not os.path.exists(path): write": an object is written only when its
\* address is free
StoreWrite(objs, h, b) == IF h \in DOMAIN objs THEN objs ELSE objs @@ (h :> b)

\* os.makedirs(objects/<h[:2]>, exist_ok=True) creates the directories above it
MakeObjectDir(dirs) == dirs \cup {GITLITE_DIR, OBJECTS_DIR}

\* any([file_path.startswith(ignored) for ignored in ignored_files])
IsIgnored(ign, p) == \E i \in 1..Len(ign) : startswith(p, ign[i])

\* the index kept as a list: every add appends an entry
IndexStage_append(idx, p, h) == Append(idx, <<p, h>>)

\* "if file_path not in index or index[file_path] != file_hash: index[..] = .."
IndexStage(idx, p, h) ==
  IF ~DictHas(idx, p) \/ DictGet(idx, p) # h THEN DictSet(idx, p, h) ELSE idx

IndexChanges(idx, p, h) == ~DictHas(idx, p) \/ DictGet(idx, p) # h

\* one turn of the loop of add over the state st it carries
add_one(st, w, ign, p) ==
  IF ~exists(w, p)
  THEN [st EXCEPT !.printed = Append(@, <<"Warning: does not exist.", p>>)]
  ELSE IF isdir(w, p)
  THEN [st EXCEPT !.printed = Append(@, <<"Warning: is a directory.", p>>)]
  ELSE IF IsIgnored(ign, p)
  THEN [st EXCEPT !.printed = Append(@, <<"Warning: is ignored.", p>>)]
  ELSE [index |-> IndexStage(st.index, p, hash_file(w, p)),
        objects |-> StoreWrite(st.objects, hash_file(w, p), RawBytes(w[p].data)),
        gitdirs |-> MakeObjectDir(st.gitdirs),
        printed |-> IF IndexChanges(st.index, p, hash_file(w, p))
                    THEN Append(st.printed, <<"Added to the staging area.", p>>)
                    ELSE st.printed,
        staged |-> (p :> w[p].data) @@ st.staged]

\* the loop of add left at the first path it warns about ("break")
RECURSIVE add_loop_break(_, _, _, _)
add_loop_break(st, w, ign, files) ==
  IF files = <<>> THEN st
  ELSE IF ~exists(w, Head(files)) \/ isdir(w, Head(files)) \/ IsIgnored(ign, Head(files))
  THEN add_one(st, w, ign, Head(files))
  ELSE add_loop_break(add_one(st, w, ign, Head(files)), w, ign, Tail(files))

\* "for file_path in files": the turns of the loop in the order of the list
RECURSIVE add_loop(_, _, _, _)
add_loop(st, w, ign, files) ==
  IF files = <<>> THEN st
  ELSE add_loop(add_one(st, w, ign, Head(files)), w, ign, Tail(files))

\* the lists of paths add is called with: the file a alone, and a after or
\* before a path add skips (the directory d, the ignored file t); the file
\* d/a stays untracked
AddArgs == {<<FileA>>, <<DirD, FileA>>, <<FileA, FileT>>, <<FileT, DirD>>}

\* the lists add is called with when a and d/a are both tracked: one file,
\* both in either order, and a file next to a directory or an ignored file
AddArgsFiles ==
  {<<FileA>>, <<FileDA>>, <<FileA, FileDA>>, <<FileDA, FileA>>,
   <<DirD, FileA>>, <<FileDA, FileT>>}

\* the warnings among the lines add printed
Warnings(printed) ==
  LET IsWarning(line) == line[1] # "Added to the staging area."
  IN SelectSeq(printed, IsWarning)

add(files) ==
  LET st0 == [index |-> load_index(index), objects |-> objects,
              gitdirs |-> gitdirs, printed |-> <<>>, staged |-> stagedBytes]
      st == add_loop(st0, workdir, read_gitliteignore, files)
  IN IF GITLITE_DIR \in st.gitdirs
     THEN \* save_index(index)
          /\ index' = Some(st.index)
          /\ objects' = st.objects
          /\ gitdirs' = st.gitdirs
          /\ stagedBytes' = st.staged
          /\ out' = Ran("add", Warnings(st.printed), "")
          /\ UNCHANGED <<workdir, HEAD, main, snapshots, commitsMade, lost, adders>>
     ELSE \* open(INDEX_PATH, 'wb') fails: there is no .gitLite directory
          /\ out' = Ran("add", Warnings(st.printed), "FileNotFoundError")
          /\ UNCHANGED <<workdir, repo, history, adders>>

\* ------------------------------------------------- add, step by step
\* Two add processes on the same repository.  Each runs the statements of
\* add in order; the file system is shared and there is no lock, so the
\* steps of the two interleave.
\* the path each invocation is given
AdderFiles(i) == IF i = 1 THEN <<FileA>> ELSE <<FileDA>>

\* the number of invocations that have saved
SavedCount == Cardinality({j \in Adders : adders[j].savedAt > 0})

\* lines 98-100: index = load_index(), the in-memory copy
add_load(i, files) ==
  /\ adders[i].pc = "idle"
  /\ adders' = [adders EXCEPT ![i] =
                  [pc |-> "loop", files |-> files, index |-> load_index(index),
                   printed |-> <<>>, staged |-> stagedBytes,
                   loadedAt |-> SavedCount, savedAt |-> 0]]
  /\ UNCHANGED <<workdir, repo, out, history>>

\* lines 102-127: one turn of the loop; the blob goes to the shared store,
\* the index entry to the copy in memory
add_turn(i) ==
  LET me == adders[i]
      st == add_one([index |-> me.index, objects |-> objects, gitdirs |-> gitdirs,
                     printed |-> me.printed, staged |-> me.staged],
                    workdir, read_gitliteignore, Head(me.files))
  IN /\ me.pc = "loop"
     /\ me.files # <<>>
     /\ objects' = st.objects
     /\ gitdirs' = st.gitdirs
     /\ adders' = [adders EXCEPT ![i] =
                     [me EXCEPT !.files = Tail(me.files), !.index = st.index,
                                !.printed = st.printed, !.staged = st.staged]]
     /\ UNCHANGED <<workdir, HEAD, main, index, out, history>>

\* save_index under a lock that loads the file again: the entries persisted
\* since the load are kept
SavedIndex_merged(persisted, mine) ==
  LET IsNew(item) == ~DictHas(mine, item[1])
  IN SelectSeq(load_index(persisted), IsNew) \o mine

\* save_index(index): pickle.dump of the copy in memory over the file
SavedIndex(persisted, mine) == mine

\* line 129: save_index(index)
add_save(i) ==
  LET me == adders[i]
  IN /\ me.pc = "loop"
     /\ me.files = <<>>
     /\ IF GITLITE_DIR \in gitdirs
        THEN /\ index' = Some(SavedIndex(index, me.index))
             /\ stagedBytes' = me.staged
             /\ out' = Ran("add", Warnings(me.printed), "")
             /\ adders' = [adders EXCEPT ![i] =
                             [me EXCEPT !.pc = "done", !.savedAt = SavedCount + 1]]
        ELSE /\ out' = Ran("add", Warnings(me.printed), "FileNotFoundError")
             /\ adders' = [adders EXCEPT ![i] = [me EXCEPT !.pc = "failed"]]
             /\ UNCHANGED <<index, stagedBytes>>
     /\ UNCHANGED <<workdir, gitdirs, HEAD, main, objects, snapshots, commitsMade, lost>>

\* ---------------------------------------------------------------- commit
\* build_tree keeping a path whose blob is missing, with empty content
RECURSIVE build_tree_keep_missing(_, _)
build_tree_keep_missing(idx, objs) ==
  IF idx = <<>> THEN <<>>
  ELSE LET p == Head(idx)[1]
           h == Head(idx)[2]
           rest == build_tree_keep_missing(Tail(idx), objs)
       IN IF h \in DOMAIN objs THEN <<<<p, objs[h]>>>> \o rest
          ELSE <<<<p, RawBytes("")>>>> \o rest

\* build_tree(index): path -> blob bytes for every staged path whose blob is
\* in the store, in the order of the index
RECURSIVE build_tree(_, _)
build_tree(idx, objs) ==
  IF idx = <<>> THEN <<>>
  ELSE LET p == Head(idx)[1]
           h == Head(idx)[2]
           rest == build_tree(Tail(idx), objs)
       IN IF h \in DOMAIN objs THEN <<<<p, objs[h]>>>> \o rest ELSE rest

\* "if index is None": load_index never returns None
NothingStaged_never(idx) == FALSE

\* "if not index": the empty mapping is falsy
NothingStaged(idx) == idx = <<>>

\* the branch ref never read: every commit a root commit
ResolveParent_none(head, ref) == None

\* the parent taken from the text of HEAD instead of the ref it names
ResolveParent_head(head, ref) ==
  IF head # None THEN Some(sha1(RawBytes(head[1]))) ELSE None

\* lines 219-228: the branch head named by HEAD, None when there is none
ResolveParent(head, ref) ==
  IF head # None /\ head[1] = SYMREF THEN ref ELSE None

\* save_index(index): the staged entries written back
IndexAfterCommit_kept(idx) == idx

\* save_index({}): what commit persists as the index once the ref is written
IndexAfterCommit(idx) == <<>>

NewCommit(message, tree_hash, parent_commit, now) ==
  [message |-> message, tree_hash |-> tree_hash,
   parent_commit |-> parent_commit, timestamp |-> now]

commit(message, now) ==
  LET idx == load_index(index)
      tree == build_tree(idx, objects)
      tree_hash == sha1(pickle_dumps_tree(tree))
      objs1 == StoreWrite(objects, tree_hash, pickle_dumps_tree(tree))
      parent_commit == ResolveParent(HEAD, main)
      commit_obj == NewCommit(message, tree_hash, parent_commit, now)
      commit_hash == sha1(Commit_serialize(commit_obj))
      objs2 == StoreWrite(objs1, commit_hash, Commit_serialize(commit_obj))
  IN IF NothingStaged(idx)
     THEN /\ out' = Ran("commit", <<<<"No files staged for commit.">>>>, "")
          /\ UNCHANGED <<workdir, repo, history, adders>>
     ELSE /\ Len(commitsMade) < MaxCommits
          /\ objects' = objs2
          /\ gitdirs' = IF objs2 = objects THEN gitdirs ELSE MakeObjectDir(gitdirs)
          /\ HEAD' = Some(SYMREF)
          /\ IF REFS_DIR \in gitdirs
             THEN /\ main' = Some(commit_hash)
                  /\ index' = Some(IndexAfterCommit(idx))
                  /\ stagedBytes' = <<>>
                  /\ snapshots' = (commit_hash :> stagedBytes) @@ snapshots
                  /\ commitsMade' = Append(commitsMade, commit_hash)
                  /\ out' = Ran("commit", <<<<"Commit created successfully.", commit_hash>>>>, "")
             ELSE \* open(refs/heads/main, 'w') fails: refs/heads is missing
                  /\ out' = Ran("commit", <<>>, "FileNotFoundError")
                  /\ UNCHANGED <<main, index, stagedBytes, snapshots, commitsMade>>
          /\ UNCHANGED <<workdir, lost, adders>>

\* the writes of commit in program order: the tree object, the commit object,
\* HEAD, refs/heads/main, the index
CommitWrites == <<"tree", "commit", "HEAD", "ref", "index">>

\* the commit objects of the store
StoredCommits(objs) == {h \in DOMAIN objs : IsCommitPickle(objs[h])}

\* a commit whose first write is the branch ref
commit_interrupted_ref_first(message, now, k) ==
  LET idx == load_index(index)
      tree == build_tree(idx, objects)
      tree_hash == sha1(pickle_dumps_tree(tree))
      parent_commit == ResolveParent(HEAD, main)
      commit_obj == NewCommit(message, tree_hash, parent_commit, now)
      commit_hash == sha1(Commit_serialize(commit_obj))
  IN /\ ~NothingStaged(idx)
     /\ Cardinality(StoredCommits(objects)) < MaxCommits
     /\ REFS_DIR \in gitdirs
     /\ main' = IF k >= 1 THEN Some(commit_hash) ELSE main
     /\ out' = Ran("commit", <<>>, "KeyboardInterrupt")
     /\ UNCHANGED <<workdir, gitdirs, HEAD, index, objects, history, adders>>

\* commit(message) ended from outside (the user interrupts the process, the
\* machine stops) after the first k of its writes; the index is not cleared
\* and nothing is printed
commit_interrupted(message, now, k) ==
  LET idx == load_index(index)
      tree == build_tree(idx, objects)
      tree_hash == sha1(pickle_dumps_tree(tree))
      objs1 == StoreWrite(objects, tree_hash, pickle_dumps_tree(tree))
      parent_commit == ResolveParent(HEAD, main)
      commit_obj == NewCommit(message, tree_hash, parent_commit, now)
      commit_hash == sha1(Commit_serialize(commit_obj))
      objs2 == StoreWrite(objs1, commit_hash, Commit_serialize(commit_obj))
      written == IF k >= 2 THEN objs2 ELSE IF k >= 1 THEN objs1 ELSE objects
  IN /\ ~NothingStaged(idx)
     /\ Cardinality(StoredCommits(objects)) < MaxCommits
     /\ k >= 4 => REFS_DIR \in gitdirs
     /\ objects' = written
     /\ gitdirs' = IF written = objects THEN gitdirs ELSE MakeObjectDir(gitdirs)
     /\ HEAD' = IF k >= 3 THEN Some(SYMREF) ELSE HEAD
     /\ main' = IF k >= 4 THEN Some(commit_hash) ELSE main
     /\ out' = Ran("commit", <<>>, "KeyboardInterrupt")
     /\ UNCHANGED <<workdir, index, history, adders>>

\* ------------------------------------------------------------------- log
\* the while loop of log: the (hash, message) lines printed from commit h on,
\* following parent_commit; open() raises when a commit object is missing
RECURSIVE log_walk(_, _, _)
log_walk(objs, h, printed) ==
  IF h \notin DOMAIN objs
  THEN [printed |-> printed, exc |-> "FileNotFoundError"]
  ELSE IF ~Unpickles(objs[h])
  THEN [printed |-> printed, exc |-> "UnpicklingError"]
  ELSE IF ~IsCommitPickle(objs[h])
  THEN [printed |-> printed, exc |-> "AttributeError"]
  ELSE LET line == <<"Commit", h, objs[h].message>>
       IN IF objs[h].parent_commit # None
          THEN log_walk(objs, objs[h].parent_commit[1], Append(printed, line))
          ELSE [printed |-> Append(printed, line), exc |-> ""]

log_result(head, ref, objs) ==
  IF head = None
  THEN [printed |-> <<<<"No HEAD file found.">>>>, exc |-> ""]
  ELSE IF head[1] # SYMREF
  THEN [printed |-> <<<<"HEAD is not pointing to a valid reference.">>>>, exc |-> ""]
  ELSE IF ref = None
  THEN [printed |-> <<<<"No commits found yet.">>>>, exc |-> ""]
  ELSE log_walk(objs, ref[1], <<<<"Commit history:">>>>)

log ==
  /\ out' = Ran("log", log_result(HEAD, main, objects).printed,
                log_result(HEAD, main, objects).exc)
  /\ UNCHANGED <<workdir, repo, history, adders>>

\* -------------------------------------------------------------- checkout
\* the loop of update_working_directory: writes the entries in order;
\* open(.., 'wb') raises at the first entry it cannot open and the rest is
\* not written
RECURSIVE write_entries(_, _)
write_entries(items, w) ==
  IF items = <<>> THEN [workdir |-> w, exc |-> ""]
  ELSE LET p == Head(items)[1]
           value == Head(items)[2]
       IN IF isdir(w, p)
          THEN [workdir |-> w, exc |-> "IsADirectoryError"]
          ELSE IF ~CanOpenForWrite(w, p)
          THEN [workdir |-> w, exc |-> "FileNotFoundError"]
          ELSE write_entries(Tail(items), [w EXCEPT ![p] = FileEntry(value.data)])

\* only files that are missing are written
update_working_directory_keep(tree, w) ==
  LET Missing(item) == ~exists(w, item[1])
  IN write_entries(SelectSeq(tree, Missing), w)

\* a cleanup pass: the files that are not in the tree are removed first
update_working_directory_prune(tree, w) ==
  write_entries(tree, [p \in DOMAIN w |->
                        IF isfile(w, p) /\ p \notin DictKeys(tree)
                        THEN NoEntry ELSE w[p]])

\* update_working_directory(tree): every value of a stored tree is bytes
update_working_directory(tree, w) == write_entries(tree, w)

\* a tree that is not in the store read as the empty tree
checkout_resolve_default(objs, commit_hash) ==
  IF commit_hash \notin DOMAIN objs
  THEN [printed |-> <<<<"Error: Commit not found.">>>>, exc |-> "", tree |-> <<>>]
  ELSE IF ~Unpickles(objs[commit_hash])
  THEN [printed |-> <<>>, exc |-> "UnpicklingError", tree |-> <<>>]
  ELSE IF ~IsCommitPickle(objs[commit_hash])
  THEN [printed |-> <<>>, exc |-> "AttributeError", tree |-> <<>>]
  ELSE IF objs[commit_hash].tree_hash \notin DOMAIN objs
  THEN [printed |-> <<>>, exc |-> "", tree |-> <<>>]
  ELSE [printed |-> <<>>, exc |-> "",
        tree |-> objs[objs[commit_hash].tree_hash].items]

\* checkout without the test for the commit object: a hash with no object
\* is taken as a commit of nothing
checkout_resolve_unchecked(objs, commit_hash) ==
  IF commit_hash \notin DOMAIN objs
  THEN [printed |-> <<>>, exc |-> "", tree |-> <<>>]
  ELSE IF ~Unpickles(objs[commit_hash])
  THEN [printed |-> <<>>, exc |-> "UnpicklingError", tree |-> <<>>]
  ELSE IF ~IsCommitPickle(objs[commit_hash])
  THEN [printed |-> <<>>, exc |-> "AttributeError", tree |-> <<>>]
  ELSE IF objs[commit_hash].tree_hash \notin DOMAIN objs
  THEN [printed |-> <<<<"Error: Tree not found.">>>>, exc |-> "", tree |-> <<>>]
  ELSE [printed |-> <<>>, exc |-> "",
        tree |-> objs[objs[commit_hash].tree_hash].items]

\* lines 284-301 of checkout: the commit object, then its tree
checkout_resolve(objs, commit_hash) ==
  IF commit_hash \notin DOMAIN objs
  THEN [printed |-> <<<<"Error: Commit not found.">>>>, exc |-> "", tree |-> <<>>]
  ELSE IF ~Unpickles(objs[commit_hash])
  THEN [printed |-> <<>>, exc |-> "UnpicklingError", tree |-> <<>>]
  ELSE IF ~IsCommitPickle(objs[commit_hash])
  THEN [printed |-> <<>>, exc |-> "AttributeError", tree |-> <<>>]
  ELSE IF objs[commit_hash].tree_hash \notin DOMAIN objs
  THEN [printed |-> <<<<"Error: Tree not found.">>>>, exc |-> "", tree |-> <<>>]
  ELSE [printed |-> <<>>, exc |-> "",
        tree |-> objs[objs[commit_hash].tree_hash].items]

\* a hash no object was ever stored under
BogusHash == sha1(RawBytes("no such object"))
CheckoutArgs ==
  DOMAIN objects \cup DOMAIN snapshots \cup {BogusHash}
    \cup {main[i] : i \in 1..Len(main)} \cup lost

checkout(commit_hash) ==
  LET res == checkout_resolve(objects, commit_hash)
      upd == update_working_directory(res.tree, workdir)
  IN IF res.printed # <<>> \/ res.exc # ""
     THEN /\ out' = Ran("checkout", res.printed, res.exc)
          /\ UNCHANGED <<workdir, repo, history, adders>>
     ELSE /\ workdir' = upd.workdir
          /\ IF upd.exc # ""
             THEN /\ out' = Ran("checkout", <<>>, upd.exc)
                  /\ UNCHANGED <<HEAD, main>>
             ELSE /\ HEAD' = Some(SYMREF)
                  /\ IF REFS_DIR \in gitdirs
                     THEN /\ main' = Some(commit_hash)
                          /\ out' = Ran("checkout",
                                        <<<<"Checked out commit successfully.">>>>, "")
                     ELSE \* open(refs/heads/main, 'w') fails
                          /\ out' = Ran("checkout", <<>>, "FileNotFoundError")
                          /\ UNCHANGED main
          /\ UNCHANGED <<gitdirs, index, objects, history, adders>>

\* checkout(commit_hash) ended from outside after the first k of its writes:
\* the files of the tree in order, then HEAD; refs/heads/main is its last
\* write and is not reached
checkout_interrupted(commit_hash, k) ==
  LET res == checkout_resolve(objects, commit_hash)
      n == Len(res.tree)
      upd == update_working_directory(SubSeq(res.tree, 1, IF k < n THEN k ELSE n),
                                      workdir)
  IN /\ res.printed = <<>>
     /\ res.exc = ""
     /\ k <= n + 1
     /\ upd.exc = ""
     /\ workdir' = upd.workdir
     /\ HEAD' = IF k > n THEN Some(SYMREF) ELSE HEAD
     /\ out' = Ran("checkout", <<>>, "KeyboardInterrupt")
     /\ UNCHANGED <<gitdirs, main, index, objects, history, adders>>

\* ------------------------------------------------------------------ diff
\* The contents of the model are texts of one line with no line end, so
\* bytes.splitlines() and file.readlines() both give the one line.
splitlines(data) == IF data = "" THEN <<>> ELSE <<data>>
readlines(data) == IF data = "" THEN <<>> ELSE <<data>>

\* difflib.unified_diff(a, b, fromfile, tofile) for a and b with no line in
\* common: nothing when they are equal, else the two header lines, the lines
\* of a marked "-" and the lines of b marked "+"
unified_diff(a, b, fromfile, tofile) ==
  IF a = b THEN <<>>
  ELSE <<<<"---", fromfile>>, <<"+++", tofile>>, <<"@@">>>>
         \o [i \in 1..Len(a) |-> <<"-", a[i]>>]
         \o [i \in 1..Len(b) |-> <<"+", b[i]>>]

\* lines 354-356: unified_diff(working_content, staged_content,
\* fromfile="Staged: ..", tofile="Working: ..")
diff_lines(working_content, staged_content) ==
  unified_diff(working_content, staged_content, "Staged", "Working")

\* the loop of diff over the staged paths: a path that is missing from the
\* working directory or whose blob is missing is passed over; open(path, 'r')
\* raises on a directory
RECURSIVE diff_loop(_, _, _, _)
diff_loop(idx, w, objs, printed) ==
  IF idx = <<>> THEN [printed |-> printed, exc |-> ""]
  ELSE LET p == Head(idx)[1]
           h == Head(idx)[2]
       IN IF ~exists(w, p) \/ h \notin DOMAIN objs
          THEN diff_loop(Tail(idx), w, objs, printed)
          ELSE IF isdir(w, p)
          THEN [printed |-> printed, exc |-> "IsADirectoryError"]
          ELSE diff_loop(Tail(idx), w, objs,
                 Append(printed,
                        <<p, diff_lines(readlines(w[p].data),
                                        splitlines(objs[h].data))>>))

\* diff: what it prints for each staged path (the echo of the two contents
\* and the list of untracked files are left out)
diff ==
  /\ IF load_index(index) = <<>>
     THEN out' = Ran("diff", <<<<"No staged files.">>>>, "")
     ELSE out' = Ran("diff", diff_loop(load_index(index), workdir, objects, <<>>).printed,
                     diff_loop(load_index(index), workdir, objects, <<>>).exc)
  /\ UNCHANGED <<workdir, repo, history, adders>>

\* ------------------------------------------------- external tampering
\* An object file removed from .gitLite/objects behind the program's back
\* (the store corruption build_tree and checkout test for).
RemoveObject(h) ==
  /\ h \in DOMAIN objects
  /\ Cardinality(lost) < MaxLost
  /\ objects' = [a \in DOMAIN objects \ {h} |-> objects[a]]
  /\ lost' = lost \cup {h}
  /\ out' = Ran("tamper", <<>>, "")
  /\ UNCHANGED <<workdir, gitdirs, HEAD, main, index, stagedBytes, snapshots,
                 commitsMade, adders>>

\* --------------------------------------------------------- specifications
UserEdit ==
  \/ \E p \in FilePaths : \E c \in Contents(p) : EditFile(p, c)
  \/ \E p \in FilePaths : RemoveFile(p)
  \/ MakeDir
  \/ RemoveDir

Next ==
  \/ UserEdit
  \/ init
  \/ \E files \in AddArgs : add(files)
  \/ \E message \in Messages, now \in Times : commit(message, now)
  \/ log
  \/ \E h \in CheckoutArgs : checkout(h)

Spec == Init /\ [][Next]_vars

\* the commands without checkout: commits made one after another
NextLinear ==
  \/ UserEdit
  \/ init
  \/ \E files \in AddArgs : add(files)
  \/ \E message \in Messages, now \in Times : commit(message, now)
  \/ log

SpecLinear == Init /\ [][NextLinear]_vars

\* the commands on a store that loses objects behind the program's back
NextTamper ==
  \/ EditFile(FileA, "hello")
  \/ init
  \/ \E files \in AddArgs : add(files)
  \/ \E message \in Messages, now \in Times : commit(message, now)
  \/ \E h \in CheckoutArgs : checkout(h)
  \/ \E h \in DOMAIN objects : RemoveObject(h)

SpecTamper == Init /\ [][NextTamper]_vars

\* the commands on two tracked files, a and d/a, with fewer commits
NextFiles ==
  \/ UserEdit
  \/ init
  \/ \E files \in AddArgsFiles : add(files)
  \/ \E message \in Messages, now \in Times :
       /\ Len(commitsMade) < MaxFilesCommits \/ index = None \/ index = Some(<<>>)
       /\ commit(message, now)
  \/ \E h \in CheckoutArgs : checkout(h)

SpecFiles == Init /\ [][NextFiles]_vars

\* the commands that stage, with diff
NextDiff ==
  \/ UserEdit
  \/ init
  \/ \E files \in AddArgs : add(files)
  \/ \E message \in Messages, now \in Times : commit(message, now)
  \/ diff

SpecDiff == Init /\ [][NextDiff]_vars

\* the commands with commits that are interrupted between two writes
NextCrash ==
  \/ \E c \in Contents(FileA) : EditFile(FileA, c)
  \/ init
  \/ \E files \in AddArgs : add(files)
  \/ \E message \in Messages, now \in Times : commit(message, now)
  \/ \E message \in Messages, now \in Times :
       \E k \in 0..(Len(CommitWrites) - 1) : commit_interrupted(message, now, k)

SpecCrash == Init /\ [][NextCrash]_vars

\* two add invocations, one for a and one for d/a, run side by side
NextRace ==
  \/ \E p \in FilePaths : \E c \in Contents(p) : EditFile(p, c)
  \/ MakeDir
  \/ init
  \/ \E i \in Adders : add_load(i, AdderFiles(i))
  \/ \E i \in Adders : add_turn(i)
  \/ \E i \in Adders : add_save(i)

SpecRace == Init /\ [][NextRace]_vars

\* the commands with commits and checkouts that are interrupted between two
\* writes: every state between the writes of a command is a state here
NextWrites ==
  \/ EditFile(FileA, "hello")
  \/ RemoveFile(FileA)
  \/ init
  \/ \E files \in AddArgs : add(files)
  \/ \E message \in Messages, now \in Times : commit(message, now)
  \/ \E message \in Messages, now \in Times :
       \E k \in 0..(Len(CommitWrites) - 1) : commit_interrupted(message, now, k)
  \/ \E h \in CheckoutArgs : checkout(h)
  \/ \E h \in CheckoutArgs : \E k \in 0..2 : checkout_interrupted(h, k)

SpecWrites == Init /\ [][NextWrites]_vars

\* commits of two tracked files from a store that loses blobs
NextTree ==
  \/ EditFile(FileA, "world")
  \/ EditFile(FileDA, "hello")
  \/ MakeDir
  \/ init
  \/ \E files \in AddArgsFiles : add(files)
  \/ \E message \in Messages, now \in Times : commit(message, now)
  \/ \E h \in DOMAIN objects : ~Unpickles(objects[h]) /\ RemoveObject(h)

SpecTree == Init /\ [][NextTree]_vars

\* ------------------------------------------------------------ the claims
NothingStagedLine == <<<<"No files staged for commit.">>>>
CheckedOutLine == <<<<"Checked out commit successfully.">>>>
CommitDone == out.cmd = "commit" /\ out.exc = "" /\ out.printed # NothingStagedLine
CheckoutDone == out.cmd = "checkout" /\ out.exc = "" /\ out.printed = CheckedOutLine

\* h is anc or one of its descendants: anc is reached from h over parent_commit
RECURSIVE Reaches(_, _, _)
Reaches(objs, h, anc) ==
  \/ h = anc
  \/ /\ h \in DOMAIN objs
     /\ IsCommitPickle(objs[h])
     /\ objs[h].parent_commit # None
     /\ Reaches(objs, objs[h].parent_commit[1], anc)

\* C1: once refs/heads/main names a commit, every later value of it is that
\* commit or a descendant of it; no command moves the ref back to an ancestor
\* or over to an unrelated commit.
C1_RefOnlyAdvances ==
  [][main # None => (main' # None /\ Reaches(objects', main'[1], main[1]))]_vars

\* every one of the paths can be opened for writing: none has become a
\* directory or lost its parent directory
Restorable(w, paths) == \A p \in paths : CanOpenForWrite(w, p)

\* C2: checkout of a commit that add and commit produced, run after the
\* working copies of its files were altered, returns and leaves every path
\* staged for that commit with the bytes it had when it was staged.
C2_RoundTrip ==
  [][\A h \in DOMAIN snapshots :
       (out'.cmd = "checkout" /\ checkout(h)
          /\ Restorable(workdir, DOMAIN snapshots[h]))
         => /\ out'.exc = ""
            /\ \A p \in DOMAIN snapshots[h] :
                 workdir'[p] = FileEntry(snapshots[h][p])]_vars

\* a checkout has just restored both files of a commit, one of them after it
\* was edited and staged again with other bytes
C2_Witness ==
  /\ CheckoutDone
  /\ main # None
  /\ main[1] \in DOMAIN snapshots
  /\ DOMAIN snapshots[main[1]] = FilePaths
  /\ \A p \in FilePaths : workdir[p] = FileEntry(snapshots[main[1]][p])
  /\ \E p \in FilePaths :
       /\ p \in DOMAIN stagedBytes
       /\ stagedBytes[p] # snapshots[main[1]][p]

\* C3: commit called with an empty index, or with no index file, changes
\* neither the object store nor refs/heads/main nor HEAD nor the index file,
\* and prints that no files are staged.
C3_EmptyCommitGuard ==
  [][\A message \in Messages, now \in Times :
       (out'.cmd = "commit" /\ commit(message, now)
          /\ (index = None \/ index = Some(<<>>)))
         => /\ UNCHANGED <<objects, main, HEAD, index, gitdirs, workdir>>
            /\ out'.printed = NothingStagedLine
            /\ out'.exc = ""]_vars

\* commit has just refused an empty index in a repository that has a commit
C3_Witness ==
  /\ out.cmd = "commit"
  /\ out.printed = NothingStagedLine
  /\ index = Some(<<>>)
  /\ main # None

\* the hashes of the "Commit <hash>: <message>" lines of log, in order
LoggedHashes(printed) == [i \in 1..(Len(printed) - 1) |-> printed[i + 1][2]]
Reverse(seq) == [i \in 1..Len(seq) |-> seq[Len(seq) + 1 - i]]

\* C4: with no checkout, after N commits that ran to completion log prints
\* exactly those N commits, the most recent first, and the last one printed
\* has no parent.
C4_LinearHistory ==
  out.cmd = "log" =>
    /\ out.exc = ""
    /\ IF commitsMade = <<>>
       THEN out.printed \in {<<<<"No HEAD file found.">>>>, <<<<"No commits found yet.">>>>}
       ELSE /\ out.printed[1] = <<"Commit history:">>
            /\ LoggedHashes(out.printed) = Reverse(commitsMade)
            /\ objects[commitsMade[1]].parent_commit = None

\* log has just printed two commits
C4_Witness == out.cmd = "log" /\ Len(commitsMade) = 2 /\ Len(out.printed) = 3

\* C5: every object of the store, blob, tree or commit, is stored at the
\* hash of its stored bytes.
C5_StoreIntegrity == \A h \in DOMAIN objects : sha1(objects[h]) = h

\* the store holds a blob, a tree and a commit
C5_Witness ==
  /\ \E h \in DOMAIN objects : ~Unpickles(objects[h])
  /\ \E h \in DOMAIN objects : IsDictPickle(objects[h])
  /\ \E h \in DOMAIN objects : IsCommitPickle(objects[h])

\* C6: no command removes an address from the object store or changes the
\* bytes stored at it.
C6_ObjectsImmutable ==
  [][\A h \in DOMAIN objects :
       h \in DOMAIN objects' /\ objects'[h] = objects[h]]_vars

\* a second commit has just been stored next to the objects of the first
C6_Witness == CommitDone /\ Len(commitsMade) = 2 /\ Cardinality(DOMAIN objects) >= 5

\* C7: right after a commit that started with a non-empty index and ran to
\* completion, the persisted index is the empty mapping.
C7_IndexClearedByCommit == CommitDone => load_index(index) = <<>>

\* a commit has just run to completion
C7_Witness == CommitDone /\ main # None /\ index = Some(<<>>)

\* add stages p: a file that no ignore prefix matches
Stageable(p) == isfile(workdir, p) /\ ~startswith(p, FileT)
\* p is staged and its working bytes are the ones it was staged with
StagedUnchanged(p) ==
  /\ Stageable(p)
  /\ p \in DOMAIN stagedBytes
  /\ stagedBytes[p] = workdir[p].data

\* C8: add of a file whose content is the one it was last staged with leaves
\* the index entry of that path as it was; when that holds of every path of
\* the call that add stages, the index and the object store are unchanged.
C8_IdempotentStaging ==
  [][\A files \in AddArgsFiles :
       (out'.cmd = "add" /\ add(files)) =>
         /\ \A p \in Elems(files) :
              StagedUnchanged(p) =>
                /\ DictHas(load_index(index'), p)
                /\ DictGet(load_index(index'), p) = DictGet(load_index(index), p)
         /\ ((\E p \in Elems(files) : Stageable(p))
              /\ \A p \in Elems(files) : Stageable(p) => StagedUnchanged(p))
            => (index' = index /\ objects' = objects)]_vars

\* add has just run on a file that is staged with its current content
C8_Witness ==
  /\ out.cmd = "add"
  /\ out.exc = ""
  /\ \E p \in FilePaths : StagedUnchanged(p)
  /\ Len(load_index(index)) = 2

\* h names a stored commit whose tree is not in the store
TreeMissing(h) ==
  /\ h \in DOMAIN objects
  /\ IsCommitPickle(objects[h])
  /\ objects[h].tree_hash \notin DOMAIN objects

\* C9: checkout of a hash that names no stored object, or of a commit whose
\* tree is not in the store, prints the not-found error and changes neither
\* the working directory nor refs/heads/main, HEAD, the index or the store.
C9_CheckoutNotFound ==
  [][\A h \in CheckoutArgs :
       (out'.cmd = "checkout" /\ checkout(h)
          /\ (h \notin DOMAIN objects \/ TreeMissing(h)))
         => /\ UNCHANGED <<workdir, gitdirs, HEAD, main, index, objects>>
            /\ out'.exc = ""
            /\ out'.printed =
                 IF h \notin DOMAIN objects
                 THEN <<<<"Error: Commit not found.">>>>
                 ELSE <<<<"Error: Tree not found.">>>>]_vars

\* checkout has just refused a commit whose tree is gone
C9_Witness ==
  /\ out.cmd = "checkout"
  /\ out.printed = <<<<"Error: Tree not found.">>>>
  /\ \E h \in DOMAIN objects : TreeMissing(h)

\* the paths of the tree of commit h
TreePaths(objs, h) == DictKeys(objs[objs[h].tree_hash].items)

\* C10: a checkout that succeeds changes, besides HEAD and refs/heads/main,
\* only the working files at the paths of the target tree: every other
\* working path keeps what it had, and the index, the object store and the
\* repository directories are unchanged.
C10_CheckoutWriteSet ==
  [][\A h \in CheckoutArgs :
       (out'.cmd = "checkout" /\ checkout(h)
          /\ out'.exc = "" /\ out'.printed = CheckedOutLine)
         => /\ UNCHANGED <<index, objects, gitdirs>>
            /\ \A p \in AllPaths \ TreePaths(objects, h) :
                 workdir'[p] = workdir[p]]_vars

\* a checkout has just succeeded next to a working file that is not in its tree
C10_Witness ==
  /\ CheckoutDone
  /\ main # None
  /\ \E p \in FilePaths : isfile(workdir, p) /\ p \notin TreePaths(objects, main[1])

\* add skips p: it does not exist, is a directory, or an ignore prefix matches
Skipped(p) == ~exists(workdir, p) \/ isdir(workdir, p) \/ startswith(p, FileT)
\* the index entry of p, None when p is not staged
IndexEntry(idx, p) ==
  IF DictHas(load_index(idx), p) THEN Some(DictGet(load_index(idx), p)) ELSE None

\* C11: in one call of add, every path that does not exist, is a directory or
\* is ignored keeps its index entry (or keeps having none) and adds nothing
\* to the object store, while every other path of the call, before or after
\* it, has its blob stored and its index entry set to the hash of its content.
C11_BatchAddSkipsBadPaths ==
  [][\A files \in AddArgs :
       (out'.cmd = "add" /\ add(files)) =>
         /\ \A p \in Elems(files) :
              IF Skipped(p)
              THEN IndexEntry(index', p) = IndexEntry(index, p)
              ELSE /\ out'.exc = ""
                   /\ IndexEntry(index', p) = Some(sha1(RawBytes(workdir[p].data)))
                   /\ sha1(RawBytes(workdir[p].data)) \in DOMAIN objects'
                   /\ objects'[sha1(RawBytes(workdir[p].data))] = RawBytes(workdir[p].data)
         /\ DOMAIN objects' =
              DOMAIN objects \cup {sha1(RawBytes(workdir[p].data)) :
                                     p \in {q \in Elems(files) : ~Skipped(q)}}]_vars

\* add has just warned about the directory d and staged the file a after it
C11_Witness ==
  /\ out.cmd = "add"
  /\ out.exc = ""
  /\ out.printed = <<<<"Warning: is a directory.", DirD>>>>
  /\ isfile(workdir, FileA)
  /\ IndexEntry(index, FileA) = Some(sha1(RawBytes(workdir[FileA].data)))

\* the layout init creates: objects/, refs/heads/ and HEAD naming the branch
LayoutComplete(dirs, head) ==
  /\ {GITLITE_DIR, OBJECTS_DIR, REFS_DIR} \subseteq dirs
  /\ head = Some(SYMREF)

\* C12: init in a directory with no repository creates objects/, refs/heads/
\* and HEAD containing "ref: refs/heads/main"; init on a repository that init
\* created changes nothing on disk and prints that the repository exists.
C12_InitIdempotent ==
  [][(out'.cmd = "init" /\ init) =>
       /\ (gitdirs = {} /\ HEAD = None) =>
            /\ LayoutComplete(gitdirs', HEAD')
            /\ out'.printed = <<<<"gitLite repository initialized.">>>>
            /\ UNCHANGED <<workdir, main, index, objects>>
       /\ LayoutComplete(gitdirs, HEAD) =>
            /\ UNCHANGED <<workdir, gitdirs, HEAD, main, index, objects>>
            /\ out'.printed = <<<<"gitLite repository already exists.">>>>]_vars

\* init has just run again on a repository that holds a commit and staged files
C12_Witness ==
  /\ out.cmd = "init"
  /\ out.printed = <<<<"gitLite repository already exists.">>>>
  /\ LayoutComplete(gitdirs, HEAD)
  /\ main # None
  /\ load_index(index) # <<>>

\* what the last diff printed for path p
DiffOf(p) == out.printed[CHOOSE i \in 1..Len(out.printed) : out.printed[i][1] = p][2]

\* C13: for a path staged with the one line "hello" whose working copy is
\* the one line "world", diff reports "hello" as removed and "world" as added.
C13_DiffDirection ==
  (/\ out.cmd = "diff"
   /\ IndexEntry(index, FileA) = Some(sha1(RawBytes("hello")))
   /\ sha1(RawBytes("hello")) \in DOMAIN objects
   /\ workdir[FileA] = FileEntry("world"))
    => /\ out.exc = ""
       /\ \E i \in 1..Len(out.printed) : out.printed[i][1] = FileA
       /\ \E i \in 1..Len(DiffOf(FileA)) : DiffOf(FileA)[i] = <<"-", "hello">>
       /\ \E i \in 1..Len(DiffOf(FileA)) : DiffOf(FileA)[i] = <<"+", "world">>

\* object h is reached from the branch ref: a commit on the parent chain of
\* the commit the ref names, or the tree of one
ReachedFromRef(objs, ref, h) ==
  /\ ref # None
  /\ \/ Reaches(objs, ref[1], h)
     \/ \E c \in StoredCommits(objs) :
          Reaches(objs, ref[1], c) /\ objs[c].tree_hash = h

\* the commit step from the current state was interrupted after k writes
Interrupted(k) ==
  /\ out'.cmd = "commit"
  /\ out'.exc = "KeyboardInterrupt"
  /\ \E message \in Messages, now \in Times : commit_interrupted(message, now, k)

\* the ref is as before the commit, what the commit wrote is not reached
\* from it, and the index holds the staged entries
RefKeptIndexKept ==
  /\ main' = main
  /\ \A h \in DOMAIN objects' \ DOMAIN objects : ~ReachedFromRef(objects', main', h)
  /\ index' = index
  /\ load_index(index') # <<>>

\* C14 as stated: a commit interrupted after any proper prefix of its five
\* writes leaves refs/heads/main naming the previous commit (or absent), the
\* objects written so far unreached from it, and the staged entries in the
\* index.
C14_CrashAnyPrefix ==
  [][\A k \in 0..(Len(CommitWrites) - 1) : Interrupted(k) => RefKeptIndexKept]_vars

\* C14 amended: that holds of a commit interrupted before its write of
\* refs/heads/main; a commit interrupted after that write and before the
\* index is cleared leaves the ref naming the new commit, whose parent is the
\* previous one, stored with its tree, and the staged entries in the index.
C14_CrashBeforeRefWrite ==
  [][\A k \in 0..(Len(CommitWrites) - 1) :
       Interrupted(k) =>
         IF CommitWrites[k + 1] # "index"
         THEN RefKeptIndexKept
         ELSE /\ main' # None
              /\ main' # main
              /\ main'[1] \in StoredCommits(objects')
              /\ objects'[main'[1]].parent_commit = main
              /\ objects'[main'[1]].tree_hash \in DOMAIN objects'
              /\ index' = index
              /\ load_index(index') # <<>>]_vars

\* a commit was interrupted after it stored its commit object: the ref names
\* the commit before it and the new commit object is in the store unreached
C14_Witness ==
  /\ out.cmd = "commit"
  /\ out.exc = "KeyboardInterrupt"
  /\ main # None
  /\ load_index(index) # <<>>
  /\ \E h \in StoredCommits(objects) :
       /\ objects[h].parent_commit = main
       /\ ~ReachedFromRef(objects, main, h)

\* both invocations have saved the index
BothSaved == \A i \in Adders : adders[i].pc = "done"
\* the invocation that saved last
LastSaver == CHOOSE i \in Adders : adders[i].savedAt = Cardinality(Adders)

\* C15: two add invocations for different files run side by side without a
\* lock: once both have saved, the index file is the in-memory index of the
\* one that saved last, so an interleaving in which it loaded before the
\* other saved leaves only its own entry persisted.
C15_LastSaveWins ==
  BothSaved =>
    /\ index = Some(adders[LastSaver].index)
    /\ adders[LastSaver].loadedAt = 0 =>
         DictKeys(load_index(index)) \subseteq Elems(AdderFiles(LastSaver))

\* both invocations staged their file and saved, and the index file holds
\* only the entry of the one that saved last
C15_Witness ==
  /\ BothSaved
  /\ adders[LastSaver].loadedAt = 0
  /\ \A i \in Adders : DictKeys(adders[i].index) = Elems(AdderFiles(i))
  /\ DictKeys(load_index(index)) = Elems(AdderFiles(LastSaver))

\* the staged paths whose blob is in the store
StagedWithBlob == {item[1] : item \in {it \in Elems(load_index(index)) : it[2] \in DOMAIN objects}}
\* the items of the tree of the stored commit c
TreeOf(objs, c) == objs[objs[c].tree_hash].items

\* the tree of commit c maps exactly the staged paths that have a blob, each
\* to the bytes of its blob
TreeIsStagedBlobs(c) ==
  /\ c \in StoredCommits(objects')
  /\ objects'[c].tree_hash \in DOMAIN objects'
  /\ IsDictPickle(objects'[objects'[c].tree_hash])
  /\ DictKeys(TreeOf(objects', c)) = StagedWithBlob
  /\ Len(TreeOf(objects', c)) = Cardinality(StagedWithBlob)
  /\ \A item \in Elems(load_index(index)) :
       item[2] \in DOMAIN objects =>
         DictGet(TreeOf(objects', c), item[1]) = objects[item[2]]

\* C16: the tree a commit stores maps exactly the paths that are in the index
\* and whose blob is in the store, each to the content of its blob: a staged
\* path with no blob is left out, a path of an earlier commit that is not
\* staged again is not in it, and in a repository with refs/heads the commit
\* runs to completion, the ref on the new commit and the index cleared.
C16_TreeIsIndexWithBlobs ==
  [][\A message \in Messages, now \in Times :
       (out'.cmd = "commit" /\ commit(message, now) /\ load_index(index) # <<>>) =>
         /\ \E c \in StoredCommits(objects') : TreeIsStagedBlobs(c)
         /\ REFS_DIR \in gitdirs =>
              /\ out'.exc = ""
              /\ main' # None
              /\ TreeIsStagedBlobs(main'[1])
              /\ index' = Some(<<>>)]_vars

\* a second commit has just completed with a staged path left out of its
\* tree because its blob was lost, and without the path of the first commit
C16_Witness ==
  /\ CommitDone
  /\ Len(commitsMade) = 2
  /\ DOMAIN snapshots[main[1]] = FilePaths
  /\ Cardinality(DictKeys(TreeOf(objects, main[1]))) = 1
  /\ \E c \in StoredCommits(objects) :
       /\ c # main[1]
       /\ objects[c].tree_hash \in DOMAIN objects
       /\ DictKeys(TreeOf(objects, c)) \cap DictKeys(TreeOf(objects, main[1])) = {}
       /\ DictKeys(TreeOf(objects, c)) # {}

\* C17: checkout writes every entry of the tree to the file at its path and
\* first creates the parent directories that are missing: checkout of a
\* commit that staged d/a succeeds and restores the file also when the
\* directory d is no longer in the working directory.
C17_CheckoutCreatesParents ==
  [][\A h \in DOMAIN snapshots :
       (out'.cmd = "checkout" /\ checkout(h)) =>
         /\ out'.exc = ""
         /\ \A p \in TreePaths(objects, h) :
              /\ workdir'[p] = FileEntry(DictGet(TreeOf(objects, h), p).data)
              /\ dirname(p) # <<>> => isdir(workdir', dirname(p))]_vars

\* C18: in every state, the states between the writes of commit and of
\* checkout included, refs/heads/main names a commit that is in the store,
\* the tree and the parent of every stored commit are in the store, and
\* every hash of the index names a blob that is in the store.
C18_ReferentialClosure ==
  /\ main # None => main[1] \in StoredCommits(objects)
  /\ \A c \in StoredCommits(objects) :
       /\ objects[c].tree_hash \in DOMAIN objects
       /\ IsDictPickle(objects[objects[c].tree_hash])
       /\ objects[c].parent_commit # None =>
            objects[c].parent_commit[1] \in StoredCommits(objects)
  /\ \A item \in Elems(load_index(index)) :
       /\ item[2] \in DOMAIN objects
       /\ ~Unpickles(objects[item[2]])

\* a second commit was interrupted between its write of the ref and its
\* clearing of the index
C18_Witness ==
  /\ out.cmd = "commit"
  /\ out.exc = "KeyboardInterrupt"
  /\ main # None
  /\ main[1] \in StoredCommits(objects)
  /\ objects[main[1]].parent_commit # None
  /\ main[1] \notin DOMAIN snapshots
  /\ load_index(index) # <<>>

\* C19: whenever init has returned, whatever ran before it, objects/,
\* refs/heads/ and HEAD containing "ref: refs/heads/main" exist, so that a
\* commit can write refs/heads/main.
C19_LayoutAfterInit ==
  out.cmd = "init" => LayoutComplete(gitdirs, HEAD)

\* the parent chain from h ends, within n commits, at a stored commit that
\* has no parent, and every commit on it is in the store
RECURSIVE ChainEnds(_, _, _)
ChainEnds(objs, h, n) ==
  /\ n > 0
  /\ h \in StoredCommits(objs)
  /\ \/ objs[h].parent_commit = None
     \/ ChainEnds(objs, objs[h].parent_commit[1], n - 1)

\* C20: the parent chain from the commit refs/heads/main names has no cycle
\* and ends at a commit with no parent after at most as many commits as the
\* store holds, so log returns after printing at most that many commits.
C20_HistoryWalkEnds ==
  /\ main # None => ChainEnds(objects, main[1], Cardinality(StoredCommits(objects)))
  /\ out.cmd = "log" =>
       /\ out.exc = ""
       /\ Len(out.printed) <= Cardinality(StoredCommits(objects)) + 1

\* log has just printed the one commit of the chain of the ref, which a
\* checkout moved back to the first of two commits
C20_Witness ==
  /\ out.cmd = "log"
  /\ Len(commitsMade) = 2
  /\ main = Some(commitsMade[1])
  /\ out.printed = <<<<"Commit history:">>, <<"Commit", commitsMade[1], "first">>>>

====
